---- MODULE Spec2Model ----
(***************************************************************************)
(* Model of src/main.py: a Streamlit page that resolves a Gemini API key,  *)
(* builds a model handle, stages an uploaded chat screenshot in a          *)
(* temporary file, uploads it, asks the remote model to analyse it and     *)
(* renders the JSON reply.                                                 *)
(*                                                                         *)
(* Streamlit executes the script (hence main()) from top to bottom once    *)
(* per user interaction; `run` counts these executions.  Variables whose   *)
(* names are Python locals (model, tmp_path, uploaded_file, chat,          *)
(* response, results) are reset at the start of every run.  The remaining  *)
(* variables are the world outside the script (environment, disk, remote   *)
(* service, widget state, the genai module's global configuration) and     *)
(* history variables (calls, created, unlinkRan, raised, display).         *)
(***************************************************************************)
EXTENDS Integers, Sequences, FiniteSets, TLC

\* Number of script executions explored (one per user interaction).
MaxRuns == 4

None == "None"

VARIABLES
    envKey,         \* os.environ["GEMINI_API_KEY"]; None when unset
    secretKey,      \* st.secrets["GEMINI_API_KEY"]; None when not configured
    configuredKey,  \* api key held by the genai module (process-wide)
    configureCount, \* number of genai.configure calls in this process
    run,            \* number of the current execution of the script
    pc,             \* position of the current execution
    file,           \* value of the st.file_uploader widget
    clicked,        \* value st.button returns in the current execution
    model,          \* main's local `model`: {} before assignment, else {handle}
    calls,          \* genai calls made by the current execution, in order
    tmpFiles,       \* temporary files that exist on disk
    nextTmp,        \* number of temporary files created so far
    created,        \* file created by the current process_image call (0: none)
    tmp_path,       \* process_image's local tmp_path (0: unassigned)
    unlinkRan,      \* os.unlink was called by the current process_image call
    files,          \* remote file handles: files[h] = run that uploaded h
    uploaded_file,  \* process_image's local uploaded_file (0: unassigned)
    chats,          \* chat sessions: chats[c] = run that opened c
    chat,           \* process_image's local chat (0: unassigned)
    sends,          \* messages sent: [run, chat, file]
    response,       \* process_image's local response
    results,        \* main's local results
    raised,         \* exceptions raised inside the current process_image call
    display         \* what the current execution rendered

vars == <<envKey, secretKey, configuredKey, configureCount, run, pc, file,
          clicked, model, calls, tmpFiles, nextTmp, created, tmp_path,
          unlinkRan, files, uploaded_file, chats, chat, sends, response,
          results, raised, display>>

worldVars == <<envKey, secretKey>>
widgetVars == <<file, clicked>>
configVars == <<configuredKey, configureCount>>
diskVars == <<tmpFiles, nextTmp, created, tmp_path, unlinkRan>>
remoteVars == <<files, uploaded_file, chats, chat, sends, response>>

Range(s) == {s[i] : i \in DOMAIN s}

(***************************************************************************)
(* Python values and the helpers applied to them.                          *)
(***************************************************************************)

\* A Python value as far as main() inspects it: its type, the keys of a
\* dict, the str elements of a list, the characters of a str and the value
\* stored under the key "error".
PyVal(type, keys, elems, chars, err) ==
    [type |-> type, keys |-> keys, elems |-> elems, chars |-> chars, err |-> err]

Unassigned == PyVal("unassigned", {}, {}, <<>>, "")

\* Python truthiness of an optional string.
Truthy(s) == s # None /\ s # ""

\* Python `a or b`.
PyOr(a, b) == IF Truthy(a) THEN a ELSE b

\* str(e) of an exception built from a tuple of arguments.
PyStr(e) == IF Len(e.args) = 0 THEN "" ELSE e.args[1]

\* The exceptions a failing step may raise: with and without a message.
Raisable(cls) == {[cls |-> cls, args |-> a] : a \in {<<>>, <<"boom">>}}

\* The dict built by the except clause.
ErrorDict(e) == PyVal("dict", {"error"}, {}, <<>>, PyStr(e))

ErrorChars == <<"e", "r", "r", "o", "r">>

\* Python `sub in s` for strings.
IsSubstring(sub, s) ==
    \E i \in 1..(Len(s) - Len(sub) + 1) : SubSeq(s, i, i + Len(sub) - 1) = sub

\* `"error" in v` raises TypeError unless v is a container or a str.
InRaises(v) == v.type \notin {"dict", "list", "str"}

\* Value of `"error" in v` when it does not raise.
ErrorIn(v) ==
    CASE v.type = "dict" -> "error" \in v.keys
      [] v.type = "list" -> "error" \in v.elems
      [] v.type = "str"  -> IsSubstring(ErrorChars, v.chars)
      [] OTHER -> FALSE

\* `v["error"]` raises TypeError on a list or a str.
SubscriptRaises(v) == v.type # "dict"

(***************************************************************************)
(* The reply texts the remote model is taken to produce, and json.loads.   *)
(***************************************************************************)
T_full    == "{\"message\": \"Hello\", \"timestamp\": null, \"emojis\": null}"
T_partial == "{\"message\": \"Hello\"}"
T_error   == "{\"error\": \"no chat found\"}"
T_array   == "[\"error\"]"
T_string  == "\"ok\""
T_number  == "42"
T_null    == "null"
T_nan     == "{\"message\": NaN, \"timestamp\": null, \"emojis\": null}"
T_prose   == "Here is the JSON: {\"message\": \"Hello\"}"
T_cut     == "{\"message\": \"Hel"

ReplyTexts == {T_full, T_partial, T_error, T_array, T_string, T_number,
               T_null, T_nan, T_prose, T_cut}

SchemaKeys == {"message", "timestamp", "emojis"}

Decoded(v) == [ok |-> TRUE, value |-> v, msg |-> ""]
DecodeError(msg) == [ok |-> FALSE, value |-> Unassigned, msg |-> msg]

\* json.loads(text): the decoded value, or the message of the
\* JSONDecodeError it raises.  Python's decoder accepts the constants NaN,
\* Infinity and -Infinity although they are not JSON.
JsonLoads(text) ==
    CASE text = T_full    -> Decoded(PyVal("dict", SchemaKeys, {}, <<>>, ""))
      [] text = T_partial -> Decoded(PyVal("dict", {"message"}, {}, <<>>, ""))
      [] text = T_error   -> Decoded(PyVal("dict", {"error"}, {}, <<>>, "no chat found"))
      [] text = T_array   -> Decoded(PyVal("list", {}, {"error"}, <<>>, ""))
      [] text = T_string  -> Decoded(PyVal("str", {}, {}, <<"o", "k">>, ""))
      [] text = T_number  -> Decoded(PyVal("int", {}, {}, <<>>, ""))
      [] text = T_null    -> Decoded(PyVal("NoneType", {}, {}, <<>>, ""))
      [] text = T_nan     -> Decoded(PyVal("dict", SchemaKeys, {}, <<>>, ""))
      [] text = T_prose  -> DecodeError("Expecting value: line 1 column 1 (char 0)")
      [] text = T_cut     -> DecodeError("Unterminated string starting at: line 1 column 13 (char 12)")

\* A response either carries text or has no candidate, in which case
\* reading response.text raises ValueError.
Responses == {[blocked |-> FALSE, text |-> t] : t \in ReplyTexts}
             \cup {[blocked |-> TRUE, text |-> ""]}

NoResponse == [blocked |-> FALSE, text |-> ""]

\* genai.GenerativeModel(...) of initialize_gemini.
ModelHandle ==
    [model_name |-> "gemini-2.0-flash-exp",
     generation_config |->
        [temperature |-> "0.25", top_p |-> "0.95", top_k |-> 40,
         max_output_tokens |-> 8192,
         response_mime_type |-> "application/json"]]

Images == {"chat.png", "chat.jpg"}

(***************************************************************************)
(* Initial state: the process has started and the first execution of the   *)
(* script is about to call initialize_gemini.                              *)
(***************************************************************************)
Init ==
    /\ envKey \in {None, "", "env-key"}
    /\ secretKey \in {None, "", "secret-key"}
    /\ configuredKey = None
    /\ configureCount = 0
    /\ run = 1
    /\ pc = "init"
    /\ file = None
    /\ clicked = FALSE
    /\ model = {}
    /\ calls = <<>>
    /\ tmpFiles = {}
    /\ nextTmp = 0
    /\ created = 0
    /\ tmp_path = 0
    /\ unlinkRan = FALSE
    /\ files = <<>>
    /\ uploaded_file = 0
    /\ chats = <<>>
    /\ chat = 0
    /\ sends = {}
    /\ response = NoResponse
    /\ results = Unassigned
    /\ raised = {}
    /\ display = "none"

(***************************************************************************)
(* initialize_gemini, called at main line 134.                             *)
(***************************************************************************)
\* Variant: the error is shown but st.stop() is missing.
InitializeGemini_NoStop ==
    /\ pc = "init"
    /\ LET api_key == PyOr(envKey, secretKey) IN
         /\ display' = IF Truthy(api_key) THEN display ELSE "init_error"
         /\ configuredKey' = api_key
         /\ configureCount' = configureCount + 1
         /\ calls' = Append(calls, "configure")
         /\ model' = {ModelHandle}
         /\ pc' = "uploader"
    /\ UNCHANGED <<worldVars, run, widgetVars, diskVars, remoteVars, results, raised>>

InitializeGemini ==
    /\ pc = "init"
    /\ LET api_key == PyOr(envKey, secretKey) IN
         \/ /\ ~Truthy(api_key)
            /\ display' = "init_error"
            /\ pc' = "halted"
            /\ UNCHANGED <<configVars, model, calls>>
         \/ /\ Truthy(api_key)
            /\ configuredKey' = api_key
            /\ configureCount' = configureCount + 1
            /\ calls' = Append(calls, "configure")
            /\ model' = {ModelHandle}
            /\ pc' = "uploader"
            /\ UNCHANGED display
    /\ UNCHANGED <<worldVars, run, widgetVars, diskVars, remoteVars, results, raised>>

(***************************************************************************)
(* main lines 135-137: the uploader and the button.                        *)
(***************************************************************************)
MainUploader ==
    /\ pc = "uploader"
    /\ \/ /\ file # None /\ clicked
          /\ pc' = "pi_write"
       \/ /\ ~(file # None /\ clicked)
          /\ pc' = "done"
    /\ UNCHANGED <<worldVars, configVars, run, widgetVars, model, calls,
                   diskVars, remoteVars, results, raised, display>>

(***************************************************************************)
(* process_image, one action per statement.                                *)
(***************************************************************************)

\* Variant: no except clause, the exception leaves process_image.
Catch_Propagate(step, e) ==
    /\ raised' = raised \cup {[step |-> step, exc |-> e]}
    /\ pc' = "crashed"
    /\ UNCHANGED results

\* except Exception as e: return {"error": str(e)}
Catch(step, e) ==
    /\ results' = ErrorDict(e)
    /\ raised' = raised \cup {[step |-> step, exc |-> e]}
    /\ pc' = "returned"

\* lines 116-118: create the named temporary file and write the image.
PiWrite ==
    /\ pc = "pi_write"
    /\ \/ \E e \in Raisable("OSError") :
            /\ Catch("write", e)
            /\ UNCHANGED diskVars
       \/ \E e \in Raisable("OSError") :
            /\ nextTmp' = nextTmp + 1
            /\ created' = nextTmp + 1
            /\ tmpFiles' = tmpFiles \cup {nextTmp + 1}
            /\ Catch("write", e)
            /\ UNCHANGED <<tmp_path, unlinkRan>>
       \/ /\ nextTmp' = nextTmp + 1
          /\ created' = nextTmp + 1
          /\ tmpFiles' = tmpFiles \cup {nextTmp + 1}
          /\ tmp_path' = nextTmp + 1
          /\ pc' = "pi_upload"
          /\ UNCHANGED <<unlinkRan, results, raised>>
    /\ UNCHANGED <<worldVars, configVars, run, widgetVars, model, calls,
                   remoteVars, display>>

\* Variant: os.unlink is missing after the upload.
PiUpload_NoUnlink ==
    /\ pc = "pi_upload"
    /\ calls' = Append(calls, "upload_file")
    /\ \/ \E e \in Raisable("GoogleAPIError") :
            /\ Catch("upload", e)
            /\ UNCHANGED <<files, uploaded_file>>
       \/ /\ files' = Append(files, run)
          /\ uploaded_file' = Len(files) + 1
          /\ pc' = "pi_start_chat"
          /\ UNCHANGED <<results, raised>>
    /\ UNCHANGED <<worldVars, configVars, run, widgetVars, model, diskVars,
                   chats, chat, sends, response, display>>

\* line 120: uploaded_file = genai.upload_file(tmp_path, mime_type="image/png")
PiUpload ==
    /\ pc = "pi_upload"
    /\ calls' = Append(calls, "upload_file")
    /\ \/ \E e \in Raisable("GoogleAPIError") :
            /\ Catch("upload", e)
            /\ UNCHANGED <<files, uploaded_file>>
       \/ /\ files' = Append(files, run)
          /\ uploaded_file' = Len(files) + 1
          /\ pc' = "pi_unlink"
          /\ UNCHANGED <<results, raised>>
    /\ UNCHANGED <<worldVars, configVars, run, widgetVars, model, diskVars,
                   chats, chat, sends, response, display>>

\* line 121: os.unlink(tmp_path)
PiUnlink ==
    /\ pc = "pi_unlink"
    /\ unlinkRan' = TRUE
    /\ \/ \E e \in Raisable("OSError") :
            /\ Catch("unlink", e)
            /\ UNCHANGED tmpFiles
       \/ /\ tmpFiles' = tmpFiles \ {tmp_path}
          /\ pc' = "pi_start_chat"
          /\ UNCHANGED <<results, raised>>
    /\ UNCHANGED <<worldVars, configVars, run, widgetVars, model, calls,
                   nextTmp, created, tmp_path, remoteVars, display>>

\* Variant: the first chat session is kept and reused by later calls.
PiStartChat_Reuse ==
    /\ pc = "pi_start_chat"
    /\ calls' = Append(calls, "start_chat")
    /\ \/ \E e \in Raisable("GoogleAPIError") :
            /\ Catch("start_chat", e)
            /\ UNCHANGED <<chats, chat>>
       \/ /\ chats' = IF Len(chats) = 0 THEN Append(chats, run) ELSE chats
          /\ chat' = 1
          /\ pc' = "pi_send"
          /\ UNCHANGED <<results, raised>>
    /\ UNCHANGED <<worldVars, configVars, run, widgetVars, model, diskVars,
                   files, uploaded_file, sends, response, display>>

\* line 123: chat = model.start_chat()
PiStartChat ==
    /\ pc = "pi_start_chat"
    /\ calls' = Append(calls, "start_chat")
    /\ \/ \E e \in Raisable("GoogleAPIError") :
            /\ Catch("start_chat", e)
            /\ UNCHANGED <<chats, chat>>
       \/ /\ chats' = Append(chats, run)
          /\ chat' = Len(chats) + 1
          /\ pc' = "pi_send"
          /\ UNCHANGED <<results, raised>>
    /\ UNCHANGED <<worldVars, configVars, run, widgetVars, model, diskVars,
                   files, uploaded_file, sends, response, display>>

\* Variant: process_image configures the client again before sending.
PiSend_Reconfigure ==
    /\ pc = "pi_send"
    /\ calls' = Append(Append(calls, "configure"), "send_message")
    /\ configuredKey' = PyOr(envKey, secretKey)
    /\ configureCount' = configureCount + 1
    /\ sends' = sends \cup {[run |-> run, chat |-> chat, file |-> uploaded_file]}
    /\ \/ \E e \in Raisable("GoogleAPIError") :
            /\ Catch("send_message", e)
            /\ UNCHANGED response
       \/ \E r \in Responses :
            /\ response' = r
            /\ pc' = "pi_parse"
            /\ UNCHANGED <<results, raised>>
    /\ UNCHANGED <<worldVars, run, widgetVars, model, diskVars,
                   files, uploaded_file, chats, chat, display>>

\* line 124: response = chat.send_message([uploaded_file, "Analyze ..."])
PiSend ==
    /\ pc = "pi_send"
    /\ calls' = Append(calls, "send_message")
    /\ sends' = sends \cup {[run |-> run, chat |-> chat, file |-> uploaded_file]}
    /\ \/ \E e \in Raisable("GoogleAPIError") :
            /\ Catch("send_message", e)
            /\ UNCHANGED response
       \/ \E r \in Responses :
            /\ response' = r
            /\ pc' = "pi_parse"
            /\ UNCHANGED <<results, raised>>
    /\ UNCHANGED <<worldVars, configVars, run, widgetVars, model, diskVars,
                   files, uploaded_file, chats, chat, display>>

\* line 126: return json.loads(response.text)
PiParse ==
    /\ pc = "pi_parse"
    /\ \/ /\ response.blocked
          /\ \E e \in Raisable("ValueError") : Catch("text", e)
       \/ /\ ~response.blocked
          /\ ~JsonLoads(response.text).ok
          /\ Catch("json", [cls |-> "JSONDecodeError",
                            args |-> <<JsonLoads(response.text).msg>>])
       \/ /\ ~response.blocked
          /\ JsonLoads(response.text).ok
          /\ results' = JsonLoads(response.text).value
          /\ pc' = "returned"
          /\ UNCHANGED raised
    /\ UNCHANGED <<worldVars, configVars, run, widgetVars, model, calls,
                   diskVars, remoteVars, display>>

(***************************************************************************)
(* main lines 141-145: render what process_image returned.  A TypeError    *)
(* raised here is not caught by main.                                      *)
(***************************************************************************)
MainRender ==
    /\ pc = "returned"
    /\ \/ /\ InRaises(results)
          /\ pc' = "crashed"
          /\ UNCHANGED display
       \/ /\ ~InRaises(results) /\ ErrorIn(results) /\ SubscriptRaises(results)
          /\ pc' = "crashed"
          /\ UNCHANGED display
       \/ /\ ~InRaises(results) /\ ErrorIn(results) /\ ~SubscriptRaises(results)
          /\ display' = "error"
          /\ pc' = "done"
       \/ /\ ~InRaises(results) /\ ~ErrorIn(results)
          /\ display' = "success_json"
          /\ pc' = "done"
    /\ UNCHANGED <<worldVars, configVars, run, widgetVars, model, calls,
                   diskVars, remoteVars, results, raised>>

(***************************************************************************)
(* User interactions: each one makes Streamlit execute the script again.   *)
(***************************************************************************)

\* A new execution of the script: every local starts unassigned.
StartRun ==
    /\ run < MaxRuns
    /\ run' = run + 1
    /\ pc' = "init"
    /\ model' = {}
    /\ calls' = <<>>
    /\ created' = 0
    /\ tmp_path' = 0
    /\ unlinkRan' = FALSE
    /\ uploaded_file' = 0
    /\ chat' = 0
    /\ response' = NoResponse
    /\ results' = Unassigned
    /\ raised' = {}
    /\ display' = "none"
    /\ UNCHANGED <<worldVars, configVars, tmpFiles, nextTmp, files, chats, sends>>

\* The user picks a file in the uploader (rendered at line 135).
UserUploadsFile ==
    /\ pc \in {"done", "crashed"}
    /\ \E img \in Images : file' = img
    /\ clicked' = FALSE
    /\ StartRun

\* The user clicks "Process Image" (rendered at line 137 when a file is set).
UserClicksButton ==
    /\ pc \in {"done", "crashed"}
    /\ file # None
    /\ clicked' = TRUE
    /\ UNCHANGED file
    /\ StartRun

\* The user reloads the page: a new session with empty widgets.
UserReloadsPage ==
    /\ pc \in {"done", "crashed", "halted"}
    /\ file' = None
    /\ clicked' = FALSE
    /\ StartRun

Next ==
    \/ InitializeGemini
    \/ MainUploader
    \/ PiWrite
    \/ PiUpload
    \/ PiUnlink
    \/ PiStartChat
    \/ PiSend
    \/ PiParse
    \/ MainRender
    \/ UserUploadsFile
    \/ UserClicksButton
    \/ UserReloadsPage

Spec == Init /\ [][Next]_vars

(***************************************************************************)
(* Properties.                                                             *)
(***************************************************************************)
PiPcs == {"pi_write", "pi_upload", "pi_unlink", "pi_start_chat", "pi_send",
          "pi_parse"}

\* process_image has returned to main (which may since have rendered).
Returned == pc \in {"returned", "done", "crashed"} /\ results # Unassigned

\* The reply text reached json.loads.
ReplyParsed == Returned /\ response # NoResponse /\ ~response.blocked

Count(s, x) == Cardinality({i \in DOMAIN s : s[i] = x})

Before(s, x, y) ==
    \A i, j \in DOMAIN s : s[i] = x /\ s[j] = y => i < j

\* The reply texts that are JSON documents by RFC 8259 (NaN is not a JSON
\* token; T_prose and T_cut do not parse).
IsValidJSON(text) ==
    text \in {T_full, T_partial, T_error, T_array, T_string, T_number, T_null}

KeyMissing == ~Truthy(PyOr(envKey, secretKey))

\* C1: when process_image has returned, the temporary file it created no
\* longer exists on disk, whichever step failed or succeeded.
C1_TempFileGoneOnReturn ==
    (Returned /\ created # 0) => created \notin tmpFiles

\* C2: if the API key resolves to nothing, the execution halts inside
\* initialize_gemini after showing the error: no genai call is made in that
\* execution (configure, upload_file, start_chat, send_message) and no
\* model handle is returned.
C2_MissingKeyHalts ==
    KeyMissing =>
        /\ pc \in {"init", "halted"}
        /\ pc = "halted" => display = "init_error"
        /\ calls = <<>>
        /\ configureCount = 0
        /\ model = {}

C2_Witness == KeyMissing /\ pc = "halted" /\ display = "init_error"

\* C3: an exception raised by any step of process_image is not propagated:
\* process_image returns a dict whose only key is "error", holding str(e);
\* nothing else is returned and no step is repeated.
C3_ExceptionBecomesErrorObject ==
    \A r \in raised :
        /\ pc \in {"returned", "done"}
        /\ raised = {r}
        /\ results.type = "dict"
        /\ results.keys = {"error"}
        /\ results.err = PyStr(r.exc)
        /\ \A c \in Range(calls) : Count(calls, c) = 1

C3_Witness ==
    /\ pc = "returned"
    /\ \E r \in raised : r.step = "send_message" /\ r.exc.args = <<"boom">>
    /\ results.err = "boom"

\* C4: whenever the reply text is not valid JSON, process_image returns
\* {error: s} with s non-empty, and never a dict carrying message,
\* timestamp or emojis.
C4_InvalidJsonGivesError ==
    (ReplyParsed /\ ~IsValidJSON(response.text)) =>
        /\ results.type = "dict"
        /\ results.keys = {"error"}
        /\ results.err # ""

\* C5: whenever every step succeeds and the reply text is well-formed JSON,
\* process_image returns a dict with exactly the keys message, timestamp
\* and emojis.
C5_ResultHasSchemaKeys ==
    (ReplyParsed /\ IsValidJSON(response.text)) =>
        /\ results.type = "dict"
        /\ results.keys = SchemaKeys

\* C6: the returned value contains the key "error" if and only if an
\* exception was caught in that call, so main shows the error display
\* exactly when a step failed and the success display exactly when every
\* step succeeded.
C6_ErrorIffCaught ==
    /\ Returned =>
         ((results.type = "dict" /\ "error" \in results.keys) <=> raised # {})
    /\ (Returned /\ pc = "done") =>
         /\ display = "error" <=> raised # {}
         /\ display = "success_json" <=> raised = {}

\* C7: whatever process_image returns, main completes the request by
\* rendering the error or the result and never raises.
C7_MainNeverRaises == pc # "crashed"

\* C8: one execution performs at most one upload, opens at most one chat
\* and sends at most one message, in that order; the message goes out only
\* after that call's upload succeeded, on the chat opened by that call, and
\* no chat or remote file is used by two calls.
C8_OneUploadOneChatOneSend ==
    /\ Count(calls, "upload_file") <= 1
    /\ Count(calls, "start_chat") <= 1
    /\ Count(calls, "send_message") <= 1
    /\ Before(calls, "upload_file", "start_chat")
    /\ Before(calls, "start_chat", "send_message")
    /\ Count(calls, "send_message") = 1 =>
         /\ Count(calls, "upload_file") = 1 /\ Count(calls, "start_chat") = 1
         /\ uploaded_file \in DOMAIN files /\ files[uploaded_file] = run
         /\ chat \in DOMAIN chats /\ chats[chat] = run
    /\ \A s \in sends :
         /\ s.chat \in DOMAIN chats /\ chats[s.chat] = s.run
         /\ s.file \in DOMAIN files /\ files[s.file] = s.run
    /\ \A s, t \in sends : s # t => s.chat # t.chat /\ s.file # t.file

C8_Witness == Cardinality(sends) = 2 /\ Count(calls, "send_message") = 1

\* C9: the temporary file is deleted after upload_file returned and before
\* the chat is opened: while and after start_chat, send_message and
\* json.loads run the file is gone, and os.unlink is skipped exactly when
\* the temp-file write or the upload raised.
C9_UnlinkBetweenUploadAndChat ==
    /\ (pc \in {"pi_start_chat", "pi_send", "pi_parse"}
        \/ "start_chat" \in Range(calls)) =>
         /\ created # 0
         /\ created \notin tmpFiles
         /\ unlinkRan
    /\ unlinkRan => uploaded_file # 0
    /\ Returned =>
         (~unlinkRan <=> \E r \in raised : r.step \in {"write", "upload"})

C9_Witness ==
    /\ pc = "returned"
    /\ \E r \in raised : r.step = "json"
    /\ unlinkRan
    /\ created # 0 /\ created \notin tmpFiles

\* C10 as stated: the credential configuration is written exactly once,
\* at startup and before any request, and only read afterwards.
C10_ConfiguredExactlyOnce ==
    /\ configureCount <= 1
    /\ pc \in PiPcs => configureCount = 1

\* C10 amended: the credential configuration is written only by
\* initialize_gemini, once in every execution of the script and before
\* that execution's request, always with the resolved key; process_image
\* leaves the configuration, the model handle and its generation config
\* unchanged on success and on error.
C10_ConfigWrittenOnlyByInit ==
    /\ [][/\ configVars' # configVars => pc = "init"
          /\ model' # model => (pc = "init" \/ pc' = "init")]_vars
    /\ [](/\ Count(calls, "configure") <= 1
          /\ (pc \in PiPcs \/ Returned) =>
               /\ Count(calls, "configure") = 1
               /\ configureCount = run
               /\ configuredKey = PyOr(envKey, secretKey)
               /\ model = {ModelHandle})

C10_Witness ==
    /\ Returned
    /\ configureCount = run
    /\ Cardinality(sends) = 2

====
